---- MODULE Spec2Model ----
(***************************************************************************)
(* Model of lambda_function.py: the request router of the GEOGloWS v2      *)
(* retrospective API.  A Python str is a sequence of text pieces (single   *)
(* characters wherever the code looks inside the string, whole literals    *)
(* elsewhere); a Python dict is a record or a function on its keys; a      *)
(* DataFrame is a record of column names and indexed rows.                 *)
(***************************************************************************)
EXTENDS Integers, Sequences, FiniteSets, TLC

VARIABLES
    store,      \* the remote zarr stores: availability and retrospective.zarr rows
    event,      \* the event of the current invocation
    checkedPath, \* lambda_handler's local path: what check_if_valid_request returned
    response,   \* what lambda_handler returned (or NoResponse)
    df,         \* the last DataFrame a handler built before formatting
    opens,      \* number of times the remote store was opened in this invocation
    pc          \* "idle" | "invoked" | "returned"

vars == <<store, event, checkedPath, response, df, opens, pc>>

(***************************************************************************)
(* Bounds of the model.                                                    *)
(***************************************************************************)
MaxRows == 3        \* rows of the stored series of the reach
MaxParams == 2      \* query parameters of one event, both locations together
MaxSegments == 4    \* path segments of one event

(***************************************************************************)
(* Text.                                                                   *)
(***************************************************************************)
V2 == <<"v", "2">>
V1 == <<"v", "1">>
Retrospective == <<"r","e","t","r","o","s","p","e","c","t","i","v","e">>
DailyAverages == <<"d","a","i","l","y","_","a","v","e","r","a","g","e","s">>
MonthlyAverages == <<"m","o","n","t","h","l","y","_","a","v","e","r","a","g","e","s">>
ReturnPeriods == <<"r","e","t","u","r","n","p","e","r","i","o","d","s">>
Forecast == <<"f","o","r","e","c","a","s","t">>
Csv == <<"c", "s", "v">>
Json == <<"j", "s", "o", "n">>
Xml == <<"x", "m", "l">>
Extra == <<"x">>

DigitChars == <<"0", "1", "2", "3", "4", "5", "6", "7", "8", "9">>

IsDigit(c) == \E i \in 1..10 : DigitChars[i] = c

DigitVal(c) == (CHOOSE i \in 1..10 : DigitChars[i] = c) - 1

IsSpace(c) == c \in {" ", "\t", "\n", "\r", "\f"}

\* str.split(sep): the pieces between the occurrences of sep, empty ones kept
RECURSIVE split(_, _)
split(s, sep) ==
    IF \A i \in 1..Len(s) : s[i] # sep
    THEN <<s>>
    ELSE LET i == CHOOSE k \in 1..Len(s) :
                      s[k] = sep /\ \A j \in 1..(k - 1) : s[j] # sep
         IN  <<SubSeq(s, 1, i - 1)>> \o split(SubSeq(s, i + 1, Len(s)), sep)

\* the slice l[1:]
SliceFrom1(l) == IF Len(l) = 0 THEN <<>> ELSE Tail(l)

\* str.strip() as int() applies it to its argument
RECURSIVE strip(_)
strip(s) ==
    IF Len(s) = 0 THEN s
    ELSE IF IsSpace(s[1]) THEN strip(Tail(s))
    ELSE IF IsSpace(s[Len(s)]) THEN strip(SubSeq(s, 1, Len(s) - 1))
    ELSE s

\* the digits of an int literal: digits, single underscores only between digits
IsDigitString(t) ==
    /\ Len(t) > 0
    /\ \A i \in 1..Len(t) : IsDigit(t[i]) \/ t[i] = "_"
    /\ IsDigit(t[1]) /\ IsDigit(t[Len(t)])
    /\ \A i \in 1..(Len(t) - 1) : ~(t[i] = "_" /\ t[i + 1] = "_")

RECURSIVE DigitsValue(_, _)
DigitsValue(t, acc) ==
    IF Len(t) = 0 THEN acc
    ELSE IF Head(t) = "_" THEN DigitsValue(Tail(t), acc)
    ELSE DigitsValue(Tail(t), 10 * acc + DigitVal(Head(t)))

Signed(t) == Len(t) > 0 /\ t[1] \in {"+", "-"}

\* int(s) raises ValueError unless this holds
IntParses(s) ==
    LET t == strip(s)
    IN  IsDigitString(IF Signed(t) THEN Tail(t) ELSE t)

\* int(s) when it parses
IntValue(s) ==
    LET t == strip(s)
    IN  IF Signed(t)
        THEN (IF t[1] = "-" THEN -1 ELSE 1) * DigitsValue(Tail(t), 0)
        ELSE DigitsValue(t, 0)

\* str(n) of a natural number
RECURSIVE NatStr(_)
NatStr(n) ==
    IF n < 10 THEN <<DigitChars[n + 1]>>
    ELSE NatStr(n \div 10) \o <<DigitChars[(n % 10) + 1]>>

\* str(n) of an int
IntStr(n) == IF n < 0 THEN <<"-">> \o NatStr(-n) ELSE NatStr(n)

\* repr() of a list of str, as an f-string renders {path}
RECURSIVE ReprItems(_)
ReprItems(l) ==
    IF Len(l) = 0 THEN <<>>
    ELSE <<"'">> \o Head(l) \o <<"'">>
         \o (IF Len(l) > 1 THEN <<",", " ">> ELSE <<>>) \o ReprItems(Tail(l))

ReprList(l) == <<"[">> \o ReprItems(l) \o <<"]">>

\* "/".join of the segments behind a leading "/"
RECURSIVE JoinPath(_)
JoinPath(segs) ==
    IF Len(segs) = 0 THEN <<>>
    ELSE <<"/">> \o Head(segs) \o JoinPath(Tail(segs))

(***************************************************************************)
(* Time.  The series is indexed by calendar day.                           *)
(***************************************************************************)
Ts(y, m, d) == [y |-> y, m |-> m, d |-> d]

IsLeap(y) == (y % 4 = 0 /\ y % 100 # 0) \/ y % 400 = 0

DaysIn(y, m) ==
    IF m = 2 THEN (IF IsLeap(y) THEN 29 ELSE 28)
    ELSE IF m \in {4, 6, 9, 11} THEN 30 ELSE 31

\* t1 <= t2 on timestamps
TsLeq(a, b) ==
    \/ a.y < b.y
    \/ a.y = b.y /\ a.m < b.m
    \/ a.y = b.y /\ a.m = b.m /\ a.d <= b.d

\* pd.to_datetime(s) accepts s (ISO dates YYYY-MM-DD are what the model sends,
\* besides text that is no date at all)
DateParses(s) ==
    /\ Len(s) = 10
    /\ s[5] = "-" /\ s[8] = "-"
    /\ \A i \in {1, 2, 3, 4, 6, 7, 9, 10} : IsDigit(s[i])
    /\ LET y == DigitsValue(SubSeq(s, 1, 4), 0)
           m == DigitsValue(SubSeq(s, 6, 7), 0)
           d == DigitsValue(SubSeq(s, 9, 10), 0)
       IN  y >= 1 /\ m \in 1..12 /\ d >= 1 /\ d <= DaysIn(y, m)

\* pd.to_datetime(s) when it parses
to_datetime(s) ==
    Ts(DigitsValue(SubSeq(s, 1, 4), 0),
       DigitsValue(SubSeq(s, 6, 7), 0),
       DigitsValue(SubSeq(s, 9, 10), 0))

\* a number printed on two digits, as strftime prints %m and %d
Pad2(n) == <<DigitChars[(n \div 10) + 1], DigitChars[(n % 10) + 1]>>

\* the keys with the year kept in them ('%y%m%d')
StrfMonthDay_WithYear(index) ==
    [i \in 1..Len(index) |->
        Pad2(index[i].y % 100) \o Pad2(index[i].m) \o Pad2(index[i].d)]

\* index.strftime('%m%d') and index.strftime('%m'): the key of every timestamp
StrfMonthDay(index) ==
    [i \in 1..Len(index) |-> Pad2(index[i].m) \o Pad2(index[i].d)]

StrfMonth(index) == [i \in 1..Len(index) |-> Pad2(index[i].m)]

(***************************************************************************)
(* Values and DataFrames.  A value is a fraction n/d in lowest terms; NaN  *)
(* is the missing value.                                                   *)
(***************************************************************************)
NaN == [n |-> 0, d |-> 0]

Num(k) == [n |-> k, d |-> 1]

RECURSIVE Gcd(_, _)
Gcd(a, b) == IF b = 0 THEN a ELSE Gcd(b, a % b)

Frac(n, d) == LET g == Gcd(n, d) IN [n |-> n \div g, d |-> d \div g]

NoFrame == [present |-> FALSE, columns |-> <<>>, rows |-> <<>>]

Frame(columns, rows) == [present |-> TRUE, columns |-> columns, rows |-> rows]

\* df.index
Index(frame) == [i \in 1..Len(frame.rows) |-> frame.rows[i].idx]

\* df[mask]: the rows whose entry of the boolean mask is true, in order
RECURSIVE SelectFrom(_, _, _)
SelectFrom(rows, mask, i) ==
    IF i > Len(rows) THEN <<>>
    ELSE (IF mask[i] THEN <<rows[i]>> ELSE <<>>) \o SelectFrom(rows, mask, i + 1)

SelectRows(rows, mask) == SelectFrom(rows, mask, 1)

RECURSIVE SumN(_, _)
SumN(vals, acc) ==
    IF Len(vals) = 0 THEN acc
    ELSE SumN(Tail(vals), IF Head(vals) = NaN THEN acc ELSE acc + Head(vals).n)

RECURSIVE CountN(_)
CountN(vals) ==
    IF Len(vals) = 0 THEN 0
    ELSE (IF Head(vals) = NaN THEN 0 ELSE 1) + CountN(Tail(vals))

\* mean of a column of a group: missing values skipped, NaN if all are missing
\* (the stored values are whole numbers)
Mean(vals) ==
    IF CountN(vals) = 0 THEN NaN ELSE Frac(SumN(vals, 0), CountN(vals))

\* lexicographic order of two strftime keys (digit strings of equal length)
RECURSIVE KeyLess(_, _)
KeyLess(a, b) ==
    /\ Len(a) > 0
    /\ \/ DigitVal(Head(a)) < DigitVal(Head(b))
       \/ Head(a) = Head(b) /\ KeyLess(Tail(a), Tail(b))

RECURSIVE SortKeys(_)
SortKeys(S) ==
    IF S = {} THEN <<>>
    ELSE LET k == CHOOSE x \in S : \A y \in S \ {x} : KeyLess(x, y)
         IN  <<k>> \o SortKeys(S \ {k})

\* the group keys of df.groupby(keys): the distinct keys
GroupKeys(keys) == {keys[i] : i \in 1..Len(keys)}

\* the rows of one group
GroupRows(frame, keys, k) ==
    SelectRows(frame.rows, [i \in 1..Len(keys) |-> keys[i] = k])

\* one column of some rows
Column(rows, j) == [i \in 1..Len(rows) |-> rows[i].vals[j]]

\* df.groupby(keys).mean(): one row per group key, keys sorted
GroupByMean(frame, keys) ==
    LET sorted == SortKeys(GroupKeys(keys))
    IN  Frame(frame.columns,
              [g \in 1..Len(sorted) |->
                  [idx  |-> sorted[g],
                   vals |-> [j \in 1..Len(frame.columns) |->
                               Mean(Column(GroupRows(frame, keys, sorted[g]), j))]]])

(***************************************************************************)
(* Formatting.                                                             *)
(***************************************************************************)
\* one value as to_csv writes it: NaN is the empty field; a float is written
\* here as n.0 when whole and else as the fraction n/d (its digits are not
\* modelled)
ValueStr(v) ==
    IF v = NaN THEN <<>>
    ELSE IF v.d = 1 THEN IntStr(v.n) \o <<".", "0">>
    ELSE IntStr(v.n) \o <<"/">> \o IntStr(v.d)

RECURSIVE JoinFields(_)
JoinFields(fields) ==
    IF Len(fields) = 0 THEN <<>>
    ELSE Head(fields) \o (IF Len(fields) > 1 THEN <<",">> ELSE <<>>)
         \o JoinFields(Tail(fields))

RECURSIVE CsvLines(_)
CsvLines(rows) ==
    IF Len(rows) = 0 THEN <<>>
    ELSE JoinFields([j \in 1..Len(Head(rows).vals) |-> ValueStr(Head(rows).vals[j])])
         \o <<"\n">> \o CsvLines(Tail(rows))

\* df.to_csv(index=False): the header of column names, then one line per row,
\* the index left out
to_csv(frame) == JoinFields(frame.columns) \o <<"\n">> \o CsvLines(frame.rows)

\* json.dumps of a str: quoted, newlines escaped
RECURSIVE JsonEscape(_)
JsonEscape(s) ==
    IF Len(s) = 0 THEN <<>>
    ELSE <<IF Head(s) = "\n" THEN "\\n" ELSE Head(s)>> \o JsonEscape(Tail(s))

json_dumps(s) == <<"\"">> \o JsonEscape(s) \o <<"\"">>

(***************************************************************************)
(* The remote store.  retrospective.zarr holds the series of one reach,    *)
(* return-periods.zarr its return periods; any other rivid is absent.      *)
(***************************************************************************)
StoredReach == 12

\* the days the stored series may have a row for, in time order, and the flow
\* of each day (the last one is missing)
StoredTimes == <<Ts(2020, 1, 15), Ts(2020, 3, 1), Ts(2021, 1, 15), Ts(2021, 1, 20)>>

StoredQout == <<Num(2), Num(4), Num(5), NaN>>

ReturnPeriodColumns == <<<<"return_period_2">>, <<"return_period_5">>>>

ReturnPeriodRow == <<Num(10), Num(20)>>

\* the series with rows for the days in S, ordered by time
SeriesOf(S) ==
    SelectRows([i \in 1..Len(StoredTimes) |-> i],
               [i \in 1..Len(StoredTimes) |-> i \in S])

Stores ==
    {[up |-> FALSE, series |-> <<>>]} \cup
    {[up |-> TRUE, series |-> SeriesOf(S)] :
        S \in {T \in SUBSET (1..Len(StoredTimes)) : Cardinality(T) <= MaxRows}}

(***************************************************************************)
(* Results of the functions: a value, or the exception raised.             *)
(***************************************************************************)
NoResponse == [none |-> TRUE]

Return(resp, frame, n) ==
    [raised |-> FALSE, resp |-> resp, exc |-> "", msg |-> <<>>,
     text |-> <<>>, frame |-> frame, opens |-> n]

Text(t, frame, n) ==
    [raised |-> FALSE, resp |-> NoResponse, exc |-> "", msg |-> <<>>,
     text |-> t, frame |-> frame, opens |-> n]

Raise(exc, msg, frame, n) ==
    [raised |-> TRUE, resp |-> NoResponse, exc |-> exc, msg |-> msg,
     text |-> <<>>, frame |-> frame, opens |-> n]

\* d.get(k, False) of a dict of str values: the empty str stands for a falsy result
Get(d, k) == IF k \in DOMAIN d THEN d[k] ELSE <<>>

\* truth value of a str
Truthy(v) == Len(v) > 0

\* truth value of a dict
TruthyDict(d) == DOMAIN d # {}

(***************************************************************************)
(* _retrospective, lines 12-36.                                            *)
(***************************************************************************)
\* a selection that yields an empty table for an absent rivid instead of raising
OpenRetrospective_EmptyWhenAbsent(st, reach_id) ==
    IF ~st.up
    THEN Raise("OSError", <<"cannot open retrospective.zarr">>, NoFrame, 1)
    ELSE Return(NoResponse,
                Frame(<<IntStr(reach_id)>>,
                      IF reach_id # StoredReach THEN <<>>
                      ELSE [i \in 1..Len(st.series) |->
                               [idx  |-> StoredTimes[st.series[i]],
                                vals |-> <<StoredQout[st.series[i]]>>]]),
                1)

\* xr.open_zarr(...).sel(rivid=reach_id) ... .pivot(columns='rivid', values='Qout')
OpenRetrospective(st, reach_id) ==
    IF ~st.up
    THEN Raise("OSError", <<"cannot open retrospective.zarr">>, NoFrame, 1)
    ELSE IF reach_id # StoredReach
    THEN Raise("KeyError", <<"'rivid ">> \o IntStr(reach_id) \o <<" not found'">>,
               NoFrame, 1)
    ELSE Return(NoResponse,
                Frame(<<IntStr(reach_id)>>,
                      [i \in 1..Len(st.series) |->
                          [idx  |-> StoredTimes[st.series[i]],
                           vals |-> <<StoredQout[st.series[i]]>>]]),
                1)

\* the upper bound taken exclusive (df.index < bound)
KeepUpTo_Exclusive(frame, bound) ==
    Frame(frame.columns,
          SelectRows(frame.rows,
                     [i \in 1..Len(frame.rows) |->
                         TsLeq(frame.rows[i].idx, bound) /\ frame.rows[i].idx # bound]))

\* df[df.index <= bound]
KeepUpTo(frame, bound) ==
    Frame(frame.columns,
          SelectRows(frame.rows,
                     [i \in 1..Len(frame.rows) |-> TsLeq(frame.rows[i].idx, bound)]))

\* df[df.index >= bound]
KeepFrom(frame, bound) ==
    Frame(frame.columns,
          SelectRows(frame.rows,
                     [i \in 1..Len(frame.rows) |-> TsLeq(bound, frame.rows[i].idx)]))

\* the message of the ValueError pd.to_datetime raises (pandas' text, abridged)
DateError(s) == <<"Unknown datetime string format: ">> \o s

fetch_retrospective(st, reach_id, params) ==
    LET opened == OpenRetrospective(st, reach_id)
        end    == Get(params, "end_date")
        start  == Get(params, "start_date")
    IN  IF opened.raised THEN opened
        ELSE IF Truthy(end) /\ ~DateParses(end)
        THEN Raise("ValueError", DateError(end), NoFrame, 1)
        ELSE LET df1 == IF Truthy(end)
                        THEN KeepUpTo(opened.frame, to_datetime(end))
                        ELSE opened.frame
             IN  IF Truthy(start) /\ ~DateParses(start)
                 THEN Raise("ValueError", DateError(start), NoFrame, 1)
                 ELSE Return(NoResponse,
                             IF Truthy(start)
                             THEN KeepFrom(df1, to_datetime(start))
                             ELSE df1,
                             1)

(***************************************************************************)
(* The handlers.                                                           *)
(***************************************************************************)
NoReachId == [statesCode |-> 422, body |-> <<"Bad request: No reachID specified">>]

NotAnInteger(seg) ==
    [statesCode |-> 400,
     body |-> <<"Bad request: couldn't make ">> \o seg \o <<" into an integer">>]

\* df.to_json(index=False): pandas refuses index=False for the default orient
\* ('columns') of a DataFrame and raises ValueError
to_json(frame, n) ==
    Raise("ValueError",
          <<"'index=False' is only valid when 'orient' is 'split' or 'table'">>,
          frame, n)

\* the format branch every handler ends with (lines 62-70, 123-131, 161-169,
\* 200-208)
format_output(frame, params, n) ==
    LET fmt == Get(params, "format")
    IN  IF Truthy(fmt)
        THEN IF fmt = Csv THEN Text(to_csv(frame), frame, n)
             ELSE IF fmt = Json THEN to_json(frame, n)
             ELSE Raise("ValueError", <<>>, frame, n)
        ELSE Text(to_csv(frame), frame, n)

\* return {'statusCode': 200, 'body': json.dumps(output)}
Respond(out) ==
    IF out.raised THEN out
    ELSE Return([statusCode |-> 200, body |-> json_dumps(out.text)],
                out.frame, out.opens)

\* event.get("queryStringParameters", False), kept when truthy
RootParams(ev) ==
    IF "queryStringParameters" \in DOMAIN ev /\ TruthyDict(ev.queryStringParameters)
    THEN ev.queryStringParameters ELSE <<>>

\* a lookup that falls back to the top-level parameters
ContextParams_OrRoot(ev) ==
    IF "queryStringParameters" \in DOMAIN ev.requestContext
       /\ TruthyDict(ev.requestContext.queryStringParameters)
    THEN ev.requestContext.queryStringParameters
    ELSE RootParams(ev)

\* event["requestContext"].get("queryStringParameters", False), kept when truthy
ContextParams(ev) ==
    IF "queryStringParameters" \in DOMAIN ev.requestContext
       /\ TruthyDict(ev.requestContext.queryStringParameters)
    THEN ev.requestContext.queryStringParameters ELSE <<>>

retrospective(path, ev, st) ==
    IF ~(Len(path) > 2) THEN Return(NoReachId, NoFrame, 0)
    ELSE LET params == RootParams(ev)
         IN  IF ~IntParses(path[3]) THEN Return(NotAnInteger(path[3]), NoFrame, 0)
             ELSE LET got == fetch_retrospective(st, IntValue(path[3]), params)
                  IN  IF got.raised THEN got
                      ELSE Respond(format_output(got.frame, params, got.opens))

daily_averages(path, ev, st) ==
    IF ~(Len(path) > 2) THEN Return(NoReachId, NoFrame, 0)
    ELSE LET params == ContextParams(ev)
         IN  IF ~IntParses(path[3]) THEN Return(NotAnInteger(path[3]), NoFrame, 0)
             ELSE LET got == fetch_retrospective(st, IntValue(path[3]), <<>>)
                  IN  IF got.raised THEN got
                      ELSE LET keys == StrfMonthDay(Index(got.frame))
                           IN  Respond(format_output(GroupByMean(got.frame, keys),
                                                     params, got.opens))

monthly_averages(path, ev, st) ==
    IF ~(Len(path) > 2) THEN Return(NoReachId, NoFrame, 0)
    ELSE LET params == ContextParams(ev)
         IN  IF ~IntParses(path[3]) THEN Return(NotAnInteger(path[3]), NoFrame, 0)
             ELSE LET got == fetch_retrospective(st, IntValue(path[3]), <<>>)
                  IN  IF got.raised THEN got
                      ELSE LET keys == StrfMonth(Index(got.frame))
                           IN  Respond(format_output(GroupByMean(got.frame, keys),
                                                     params, got.opens))

\* xr.open_zarr(s3store).sel(rivid=reach_id).to_dataframe() on return-periods.zarr
OpenReturnPeriods(st, reach_id) ==
    IF ~st.up
    THEN Raise("OSError", <<"cannot open return-periods.zarr">>, NoFrame, 1)
    ELSE IF reach_id # StoredReach
    THEN Raise("KeyError", <<"'rivid ">> \o IntStr(reach_id) \o <<" not found'">>,
               NoFrame, 1)
    ELSE Return(NoResponse,
                Frame(ReturnPeriodColumns,
                      <<[idx |-> IntStr(reach_id), vals |-> ReturnPeriodRow]>>),
                1)

\* a handler that opens the store before it parses the reach id
returnperiods_OpensFirst(path, ev, st) ==
    IF ~(Len(path) > 2) THEN Return(NoReachId, NoFrame, 0)
    ELSE LET params == ContextParams(ev)
         IN  IF ~IntParses(path[3]) THEN Return(NotAnInteger(path[3]), NoFrame, 1)
             ELSE LET got == OpenReturnPeriods(st, IntValue(path[3]))
                  IN  IF got.raised THEN got
                      ELSE Respond(format_output(got.frame, params, got.opens))

returnperiods(path, ev, st) ==
    IF ~(Len(path) > 2) THEN Return(NoReachId, NoFrame, 0)
    ELSE LET params == ContextParams(ev)
         IN  IF ~IntParses(path[3]) THEN Return(NotAnInteger(path[3]), NoFrame, 0)
             ELSE LET got == OpenReturnPeriods(st, IntValue(path[3]))
                  IN  IF got.raised THEN got
                      ELSE Respond(format_output(got.frame, params, got.opens))

(***************************************************************************)
(* check_if_valid_request, lines 74-95: the path list, or a rejection dict.*)
(***************************************************************************)
check_if_valid_request(ev) ==
    IF \/ "requestContext" \notin DOMAIN ev
       \/ "http" \notin DOMAIN ev.requestContext
       \/ "path" \notin DOMAIN ev.requestContext.http
    THEN [isList |-> FALSE, path |-> <<>>,
          dict |-> [statesCode |-> 400, body |-> <<"Bad request">>]]
    ELSE LET path == SliceFrom1(split(ev.requestContext.http.path, "/"))
         IN  IF Len(path) > 0 /\ ~(path[1] = V2)
             THEN [isList |-> FALSE, path |-> <<>>,
                   dict |-> [statesCode |-> 422,
                             body |-> <<"No V2 in ">> \o ReprList(path)]]
             ELSE [isList |-> TRUE, path |-> path, dict |-> NoResponse]

(***************************************************************************)
(* lambda_handler, lines 212-244.                                          *)
(***************************************************************************)
\* json.dumps of a dict of str values, in the order format, start_date, end_date
DumpsParams(params) ==
    LET Keys == <<"format", "start_date", "end_date">>
        Present(k) == k \in DOMAIN params
        Item(k) == <<"\"", k, "\": ">> \o json_dumps(params[k])
        RECURSIVE Items(_, _)
        Items(ks, first) ==
            IF Len(ks) = 0 THEN <<>>
            ELSE IF Present(Head(ks))
            THEN (IF first THEN <<>> ELSE <<", ">>) \o Item(Head(ks))
                 \o Items(Tail(ks), FALSE)
            ELSE Items(Tail(ks), first)
    IN  <<"{">> \o Items(Keys, TRUE) \o <<"}">>

\* json.dumps(event) of an event that has a path
DumpsEvent(ev) ==
    <<"{\"requestContext\": {\"http\": {\"method\": \"GET\", \"path\": ">>
    \o json_dumps(ev.requestContext.http.path)
    \o <<"}, \"queryStringParameters\": ">>
    \o DumpsParams(ev.requestContext.queryStringParameters)
    \o <<"}, \"queryStringParameters\": ">>
    \o DumpsParams(ev.queryStringParameters) \o <<"}">>

\* except Exception as e: return {'statesCode': 400, 'body': f"Bad request: {e}"}
Caught(out) ==
    IF out.raised
    THEN Return([statesCode |-> 400, body |-> <<"Bad request: ">> \o out.msg],
                out.frame, out.opens)
    ELSE out

lambda_handler(ev, st) ==
    LET checked == check_if_valid_request(ev)
        path == checked.path
    IN  IF ~checked.isList
        THEN \* path is the rejection dict: len(path) is 2 and path[1] raises KeyError(1)
             Caught(Raise("KeyError", <<"1">>, NoFrame, 0))
        ELSE IF ~(Len(path) > 1)
        THEN \* the length test only passes; path[1] raises IndexError
             Caught(Raise("IndexError", <<"list index out of range">>, NoFrame, 0))
        ELSE IF path[2] = Retrospective THEN Caught(retrospective(path, ev, st))
        ELSE IF path[2] = DailyAverages THEN Caught(daily_averages(path, ev, st))
        ELSE IF path[2] = MonthlyAverages THEN Caught(monthly_averages(path, ev, st))
        ELSE IF path[2] = ReturnPeriods THEN Caught(returnperiods(path, ev, st))
        ELSE Return([statusCode |-> 200, body |-> DumpsEvent(ev)], NoFrame, 0)

(***************************************************************************)
(* The events the host may deliver.                                        *)
(***************************************************************************)
IsoDate(y, m, d) == NatStr(y) \o <<"-">> \o Pad2(m) \o <<"-">> \o Pad2(d)

FormatValues == {Csv, Json, Xml, <<>>}

\* two days of the series and a day that does not exist
DateValues == {IsoDate(2020, 1, 15), IsoDate(2021, 1, 15), IsoDate(2020, 2, 30)}

ParamValues(k) == IF k = "format" THEN FormatValues ELSE DateValues

ParamKeys == {"format", "start_date", "end_date"}

ParamDicts ==
    UNION {{p \in [K -> FormatValues \cup DateValues] :
                \A k \in K : p[k] \in ParamValues(k)} : K \in SUBSET ParamKeys}

EndpointSegments ==
    {Retrospective, DailyAverages, MonthlyAverages, ReturnPeriods, Forecast, <<>>}

ReachSegments == {<<"1", "2">>, <<"+", "1", "_", "2">>, <<"-", "7">>, <<"1", ".", "5">>, <<>>}

SegmentChoices(i) ==
    IF i = 1 THEN {V2}
    ELSE IF i = 2 THEN EndpointSegments
    ELSE IF i = 3 THEN ReachSegments
    ELSE {Extra}

\* the paths under /v2, of up to MaxSegments segments (none: the empty path)
V2Paths ==
    UNION {{JoinPath(segs) :
                segs \in {q \in [1..n -> {V2} \cup EndpointSegments
                                         \cup ReachSegments \cup {Extra}] :
                              \A i \in 1..n : q[i] \in SegmentChoices(i)}} :
           n \in 0..MaxSegments}

\* paths of another version
OtherVersionPaths ==
    {JoinPath(<<V1>>), JoinPath(<<V1, Retrospective, <<"1", "2">>>>)}

Paths == V2Paths \cup OtherVersionPaths

ParamPairs ==
    {pp \in ParamDicts \X ParamDicts :
        Cardinality(DOMAIN pp[1]) + Cardinality(DOMAIN pp[2]) <= MaxParams}

FullEvent(path, root, ctx) ==
    [requestContext |-> [http |-> [method |-> "GET", path |-> path],
                         queryStringParameters |-> ctx],
     queryStringParameters |-> root]

\* events that lack requestContext, http or path
MalformedEvents ==
    {[queryStringParameters |-> <<>>],
     [requestContext |-> [queryStringParameters |-> <<>>],
      queryStringParameters |-> <<>>],
     [requestContext |-> [http |-> [method |-> "GET"],
                          queryStringParameters |-> <<>>],
      queryStringParameters |-> <<>>]}

Events ==
    {FullEvent(p, pp[1], pp[2]) : p \in Paths, pp \in ParamPairs} \cup MalformedEvents

NoEvent == [none |-> TRUE]

NoPath == [isList |-> FALSE, path |-> <<>>, dict |-> NoResponse]

(***************************************************************************)
(* The state machine: the host invokes lambda_handler with one event, the  *)
(* handler runs to its return, the host takes the response.                *)
(***************************************************************************)
Init ==
    /\ store \in Stores
    /\ event = NoEvent
    /\ checkedPath = NoPath
    /\ response = NoResponse
    /\ df = NoFrame
    /\ opens = 0
    /\ pc = "idle"

LambdaHandler ==
    /\ pc = "idle"
    /\ \E ev \in Events :
          LET out == lambda_handler(ev, store)
          IN  /\ event' = ev
              /\ checkedPath' = check_if_valid_request(ev)
              /\ response' = out.resp
              /\ df' = out.frame
              /\ opens' = out.opens
    /\ pc' = "returned"
    /\ UNCHANGED store

Finish ==
    /\ pc = "returned"
    /\ event' = NoEvent
    /\ checkedPath' = NoPath
    /\ response' = NoResponse
    /\ df' = NoFrame
    /\ opens' = 0
    /\ pc' = "idle"
    /\ UNCHANGED store

Next ==
    \/ LambdaHandler
    \/ Finish

Spec == Init /\ [][Next]_vars

(***************************************************************************)
(* Properties.                                                             *)
(***************************************************************************)
Returned == pc = "returned"

\* check_if_valid_request accepted the returned event, and its path list
Accepted == Returned /\ checkedPath.isList

PathOf == checkedPath.path

Recognized == {Retrospective, DailyAverages, MonthlyAverages, ReturnPeriods}

\* the event went to one of the four handlers
Dispatched == Accepted /\ Len(PathOf) > 1 /\ PathOf[2] \in Recognized

\* the number an envelope carries, under whichever key it carries it
Code(r) == IF "statusCode" \in DOMAIN r THEN r.statusCode ELSE r.statesCode

Status200(r) == "statusCode" \in DOMAIN r /\ r.statusCode = 200

\* the parameters the dispatched handler reads
ReadParams ==
    IF PathOf[2] = Retrospective THEN RootParams(event) ELSE ContextParams(event)

\* C1: every response of lambda_handler has the key statusCode (and the key body)
C1_EnvelopeHasStatusCode ==
    Returned => "statusCode" \in DOMAIN response /\ "body" \in DOMAIN response

\* C2: a v2 path whose second segment is no recognized endpoint gets an error
\* envelope, never a status-200 response (the final return is never reached)
C2_UnknownEndpointIsError ==
    (Accepted /\ Len(PathOf) > 1 /\ PathOf[2] \notin Recognized)
        => ~Status200(response)

\* C3: when check_if_valid_request rejects the event, lambda_handler returns that
\* rejection itself (422 'No V2 in <path>' or 400 'Bad request')
C3_RejectionIsReturned ==
    (Returned /\ ~checkedPath.isList) => response = checkedPath.dict

\* C4: a path with the version segment v2 and fewer than three segments gets
\* code 422 with body 'Bad request: No reachID specified'
C4_MissingReachId ==
    (Accepted /\ Len(PathOf) > 0 /\ Len(PathOf) < 3)
        => /\ Code(response) = 422
           /\ response.body = <<"Bad request: No reachID specified">>

\* C5: on a recognized endpoint, a third segment that is no integer gets code 400
\* with a body naming the segment, and the remote store is not opened
C5_InvalidReachId ==
    (Dispatched /\ Len(PathOf) > 2 /\ ~IntParses(PathOf[3]))
        => /\ Code(response) = 400
           /\ response.body = <<"Bad request: couldn't make ">> \o PathOf[3]
                              \o <<" into an integer">>
           /\ opens = 0

C5_Witness ==
    /\ Dispatched /\ Len(PathOf) > 2
    /\ PathOf[3] = <<"1", ".", "5">>
    /\ PathOf[2] = ReturnPeriods
    /\ store.up
    /\ Code(response) = 400

\* C6: on a recognized endpoint with a stored reach, a format parameter (where
\* the handler reads it) that is neither csv nor json never gets a 200 response
C6_UnsupportedFormatIsError ==
    (/\ Dispatched /\ Len(PathOf) > 2 /\ IntParses(PathOf[3])
     /\ store.up /\ IntValue(PathOf[3]) = StoredReach
     /\ "format" \in DOMAIN ReadParams
     /\ ReadParams["format"] \notin {Csv, Json})
        => ~Status200(response)

\* C7: when the fetch fails (store down or reach absent) the exception is caught:
\* the response carries code 400 and the exception's message, never status 200
C7_FetchFailureIsError ==
    (/\ Dispatched /\ Len(PathOf) > 2 /\ IntParses(PathOf[3])
     /\ (~store.up \/ IntValue(PathOf[3]) # StoredReach))
        => /\ ~Status200(response)
           /\ Code(response) = 400
           /\ response.body =
                <<"Bad request: ">> \o
                (IF PathOf[2] = ReturnPeriods
                 THEN <<IF store.up THEN "'rivid " ELSE "cannot open return-periods.zarr">>
                 ELSE <<IF store.up THEN "'rivid " ELSE "cannot open retrospective.zarr">>)
                \o (IF store.up
                    THEN IntStr(IntValue(PathOf[3])) \o <<" not found'">>
                    ELSE <<>>)
           /\ opens = 1

C7_Witness ==
    /\ Dispatched /\ Len(PathOf) > 2
    /\ PathOf[2] = DailyAverages
    /\ PathOf[3] = <<"-", "7">>
    /\ store.up
    /\ Code(response) = 400

\* a day as one number
DayNumber(t) == t.y * 10000 + t.m * 100 + t.d

\* the retrospective request reached the date filter with dates that parse
Filtered ==
    /\ Dispatched /\ Len(PathOf) > 2 /\ PathOf[2] = Retrospective
    /\ IntParses(PathOf[3]) /\ IntValue(PathOf[3]) = StoredReach
    /\ store.up
    /\ \A k \in {"start_date", "end_date"} :
          k \in DOMAIN RootParams(event) => DateParses(RootParams(event)[k])

\* C8: the date filter keeps exactly the rows with start_date <= t <= end_date,
\* an absent bound not restricting; with start_date = end_date exactly the rows
\* of that day
C8_DateFilterInclusive ==
    Filtered =>
        LET p == RootParams(event)
            InRange(t) ==
                /\ "start_date" \in DOMAIN p
                      => DayNumber(to_datetime(p["start_date"])) <= DayNumber(t)
                /\ "end_date" \in DOMAIN p
                      => DayNumber(t) <= DayNumber(to_datetime(p["end_date"]))
            Kept == {i \in 1..Len(store.series) : InRange(StoredTimes[store.series[i]])}
        IN  /\ df.present
            /\ Len(df.rows) = Cardinality(Kept)
            /\ {df.rows[j].idx : j \in 1..Len(df.rows)}
                   = {StoredTimes[store.series[i]] : i \in Kept}
            /\ \A j \in 1..Len(df.rows) : \E i \in Kept :
                   /\ df.rows[j].idx = StoredTimes[store.series[i]]
                   /\ df.rows[j].vals = <<StoredQout[store.series[i]]>>
            /\ ({"start_date", "end_date"} \subseteq DOMAIN p
                   /\ p["start_date"] = p["end_date"])
                  => \A j \in 1..Len(df.rows) :
                        df.rows[j].idx = to_datetime(p["start_date"])

C8_Witness ==
    /\ Filtered
    /\ {"start_date", "end_date"} \subseteq DOMAIN RootParams(event)
    /\ RootParams(event)["start_date"] = IsoDate(2021, 1, 15)
    /\ RootParams(event)["end_date"] = IsoDate(2021, 1, 15)
    /\ Len(store.series) = 3
    /\ Len(df.rows) = 1
    /\ Status200(response)

\* every month-and-day key of a calendar, leap day included, and every month key
AllMonthDayKeys ==
    UNION {{Pad2(m) \o Pad2(d) : d \in 1..(IF m = 2 THEN 29
                                           ELSE IF m \in {4, 6, 9, 11} THEN 30
                                           ELSE 31)} : m \in 1..12}

AllMonthKeys == {Pad2(m) : m \in 1..12}

\* an aggregating handler built its table
Aggregated ==
    /\ Dispatched /\ Len(PathOf) > 2
    /\ PathOf[2] \in {DailyAverages, MonthlyAverages}
    /\ df.present

\* C9: the aggregation has exactly one row per distinct month-and-day key
\* (daily_averages) or month key (monthly_averages) of the series, so every
\* input row falls in exactly one group, and at most 366 resp. 12 groups exist
C9_OneRowPerGroupKey ==
    Aggregated =>
        LET daily == PathOf[2] = DailyAverages
            KeyOf(t) == IF daily THEN Pad2(t.m) \o Pad2(t.d) ELSE Pad2(t.m)
            InputKeys == {KeyOf(StoredTimes[store.series[i]]) :
                             i \in 1..Len(store.series)}
            OutputKeys == {df.rows[j].idx : j \in 1..Len(df.rows)}
        IN  /\ OutputKeys = InputKeys
            /\ Len(df.rows) = Cardinality(InputKeys)
            /\ \A i \in 1..Len(store.series) :
                  Cardinality({j \in 1..Len(df.rows) :
                      df.rows[j].idx = KeyOf(StoredTimes[store.series[i]])}) = 1
            /\ OutputKeys \subseteq (IF daily THEN AllMonthDayKeys ELSE AllMonthKeys)
            /\ Cardinality(AllMonthDayKeys) = 366
            /\ Cardinality(AllMonthKeys) = 12

C9_Witness ==
    /\ Aggregated
    /\ PathOf[2] = DailyAverages
    /\ Len(store.series) = 3
    /\ Len(df.rows) = 2
    /\ df.rows[1] = [idx |-> <<"0", "1", "1", "5">>, vals |-> <<Frac(7, 2)>>]
    /\ Status200(response)

\* the event with the parameters the dispatched handler cannot use taken away:
\* the other location emptied, and for the three handlers that only take a
\* format also start_date and end_date
Stripped ==
    LET root == event.queryStringParameters
        ctx  == event.requestContext.queryStringParameters
        path == event.requestContext.http.path
    IN  IF PathOf[2] = Retrospective
        THEN FullEvent(path, root, <<>>)
        ELSE FullEvent(path, <<>>, [k \in DOMAIN ctx \cap {"format"} |-> ctx[k]])

\* C10: retrospective reads only the top-level parameters, the other handlers
\* only requestContext's, and of those only format: the response is the one of
\* the same request without the parameters elsewhere
C10_ParametersReadAtOneLocation ==
    Dispatched => response = lambda_handler(Stripped, store).resp

C10_Witness ==
    /\ Dispatched /\ Len(PathOf) > 2
    /\ PathOf[2] = MonthlyAverages
    /\ "format" \in DOMAIN event.queryStringParameters
    /\ event.queryStringParameters["format"] = Xml
    /\ "start_date" \in DOMAIN event.requestContext.queryStringParameters
    /\ Status200(response)

====
